---- MODULE Spec2Model ----
(***************************************************************************)
(* Task scheduler of MultiProtocolDataCollector                            *)
(* (src/backend/task-scheduler/app.py).                                    *)
(*                                                                         *)
(* The scheduler keeps a task table (TaskScheduler.tasks), a result log    *)
(* (the module-level dict task_results) and registers one job of the       *)
(* `schedule` library per add_task call.  One daemon thread runs           *)
(* run_scheduler: schedule.run_pending() followed by time.sleep(1).        *)
(* run_pending calls the job function (_execute_task) directly, in the     *)
(* scheduler thread; the HTTP handlers (POST /tasks, DELETE /tasks/<id>)   *)
(* run in other threads and interleave with _execute_task wherever it     *)
(* does not hold TaskScheduler.lock.                                       *)
(*                                                                         *)
(* Time is the logical clock `now` (one unit = one second).                *)
(*                                                                         *)
(* SSH collector (src/backend/ssh-collector/app.py; the Netmiko collector, *)
(* src/backend/netmiko-ssh-collector/app.py, has the same structure).      *)
(*                                                                         *)
(* The collector keeps a registry of sessions (active_connections:         *)
(* connection_id -> client) behind a lock.  Each HTTP request (/connect,   *)
(* /execute, /disconnect) runs in its own thread; only the dictionary      *)
(* access of each method is inside the lock, the network operations        *)
(* (client.connect, exec_command, client.close) are outside it.            *)
(***************************************************************************)
EXTENDS Integers, Sequences, FiniteSets, TLC

\* ------------------------------------------------------------------ bounds
\* the clock stops at MaxTime; at most MaxJobs registrations (POST /tasks)
MaxTime == 2
MaxJobs == 2
\* length, in seconds, of the scenario of one task registered once
ScenarioSeconds == 3
\* at most MaxCalls requests to the collector
MaxCalls == 4

\* request threads of the collector that run statement by statement
MaxThreads == 2

\* shell invocations of the scheduler, one after the other
MaxUnits == 3

\* ------------------------------------------------------- program constants
\* time.sleep(1) in run_scheduler
SleepSeconds == 1

\* None of the fields 'last_run' and 'next_run' of a task entry
NoneTime == 0 - 1

TaskIds == {"t1", "t2"}

\* the service types registered here: one _call_service knows, one it does not
ServiceTypes == {"ssh", "ftp"}

\* interval_type values _schedule_task knows
KnownIntervalTypes == {"seconds", "minutes", "hours", "days"}
IntervalTypes == {"seconds"}
IntervalValues == {1}

\* the 'config' object of POST /tasks
Configs ==
  [interval_type : IntervalTypes, interval_value : IntervalValues,
   service_type : ServiceTypes]

NoConfig == [interval_type |-> "none", interval_value |-> 0, service_type |-> "none"]

\* seconds of one unit of interval_type (schedule: timedelta(**{unit: interval}))
UnitSeconds(interval_type) ==
  CASE interval_type = "seconds" -> 1
    [] interval_type = "minutes" -> 60
    [] interval_type = "hours" -> 3600
    [] interval_type = "days" -> 86400
    [] OTHER -> 0

\* the period of the job _schedule_task registers for a config
Period(config) == config.interval_value * UnitSeconds(config.interval_type)

\* what a request to the gateway can come back with: a 200 answer, an answer
\* with another status (the gateway's or the collector's JSON error body), or
\* a requests exception (gateway unreachable)
Responses == {"ok", "err", "exc"}

VARIABLES
  now,           \* logical clock, seconds
  tasks,         \* TaskScheduler.tasks: task_id -> entry
  jobs,          \* schedule.jobs: the jobs of the default scheduler
  next_job_id,   \* identity of the next Job object
  task_results,  \* the result log, in insertion order
  loop_pc,       \* run_scheduler: "sleeping", "pending" (in run_pending), "dead"
  wake_at,       \* when the time.sleep(1) of run_scheduler ends
  runnable,      \* run_pending: ids of the due jobs still to run in this pass
  units,         \* executions of _execute_task that have read their entry
  removed        \* history: ids whose remove_task returned True, not registered since

vars == <<now, tasks, jobs, next_job_id, task_results, loop_pc, wake_at,
          runnable, units, removed>>

\* the collector
VARIABLES
  active_connections,  \* SSHCollector.active_connections: connection_id -> client
  clients,             \* the clients whose connect succeeded, in order of creation
  calls,               \* the requests being served, one thread each
  next_call,           \* identity of the next request
  disconnected,        \* history: keys whose entry a disconnect popped, none put since
  superseded           \* history: clients whose registry entry a connect overwrote

cvars == <<active_connections, clients, calls, next_call, disconnected, superseded>>

\* the registry lock and the HTTP layer of the collector
VARIABLES
  threads,             \* the statement each request thread of the collector is at
  lock,                \* SSHCollector.lock: the thread that holds it, or NoThread
  answer               \* the last answer of a handler to a request it rejected

\* the gateway
VARIABLES
  backends,            \* the condition of the backend behind each directory entry
  exchange,            \* proxy_request: the last request and its answer
  service_status,      \* list_services: the local dict service_status
  probing              \* list_services: position of the loop in SERVICES, 0 when idle

\* the shell invocation of the scheduler
VARIABLES
  shell                \* _call_ssh_service: its control state and the requests it sent

\* what the requests to the gateway and to the scheduler's handlers carry
VARIABLES
  relay,               \* proxy_request: the inbound request and the one sent on
  reply,               \* delete_task: the last answer
  reader               \* list_tasks: the dict get_tasks returned and what was read from it

xvars == <<threads, lock, answer, backends, exchange, service_status, probing, shell,
          relay, reply, reader>>

\* threading.Lock() that nobody holds
NoThread == 0

\* the request threads of the collector
Threads == 1..MaxThreads

\* a thread that serves no request
IdleThread == [op |-> "idle", key |-> "none", pc |-> 0, client |-> 0]

\* no request rejected so far
NoAnswer == [fields |-> {}, status |-> 0, body |-> "none"]

\* the service directory SERVICES of the gateway, in the order of the dict
\* (two of its six entries)
SERVICES == <<"ssh", "api">>

ServiceNames == {SERVICES[k] : k \in 1..Len(SERVICES)}

\* no request proxied so far
NoExchange ==
  [service |-> "none", method |-> "none", sent |-> FALSE, cond |-> "none",
   backend |-> [status |-> 0, json |-> FALSE], status |-> 0, body |-> "none"]

\* _call_ssh_service has not been called
NoShell == [pc |-> "idle", sent |-> << >>, connected |-> FALSE, opened |-> 0,
            result |-> "none", raised |-> FALSE, units |-> 0]

\* a request: the service and the path of its URL, its method, its JSON body
\* and its query string
NoRequest ==
  [service |-> "none", method |-> "none", path |-> "none", json |-> "none", args |-> "none"]

\* no request proxied so far
NoRelay == [inbound |-> NoRequest, outbound |-> NoRequest]

\* no DELETE /tasks/<id> answered so far
NoReply == [task_id |-> "none", status |-> 0]

\* no GET /tasks being served
NoReader == [pc |-> "idle", keys |-> {}, taken |-> << >>, seen |-> << >>]

\* ------------------------------------------------------------ the task table

\* the entry add_task writes
NewEntry(config) ==
  [config |-> config, status |-> "scheduled", last_run |-> NoneTime,
   next_run |-> NoneTime, run_count |-> 0]

Registered == DOMAIN tasks

\* dict assignment self.tasks[task_id] = entry
PutTask(t, entry) == [x \in Registered \cup {t} |-> IF x = t THEN entry ELSE tasks[x]]

\* mutation: remove_task leaves the entry in the table
DelTaskKeepsEntry(t) == tasks

\* del self.tasks[task_id]
DelTask(t) == [x \in Registered \ {t} |-> tasks[x]]

\* get_tasks: a shallow copy of the table
get_tasks == tasks

\* self.tasks.get(task_id) followed by `if not task: return`
TaskFound(t) == t \in Registered

\* ------------------------------------------------------ the schedule library

\* schedule.every(n).<unit>.do(self._execute_task, task_id): a Job without
\* tags, first due one period from now
NewJob(id, t, config) ==
  [id |-> id, task_id |-> t, interval |-> Period(config),
   next_run |-> now + Period(config), tags |-> {}]

\* _schedule_task: one job for a known interval_type, none otherwise
ScheduleTask(t, config) ==
  IF config.interval_type \in KnownIntervalTypes
  THEN Append(jobs, NewJob(next_job_id, t, config))
  ELSE jobs

\* schedule.clear(tag): drops the jobs that carry the tag
ScheduleClear(js, tag) == SelectSeq(js, LAMBDA j : tag \notin j.tags)

JobById(id) == jobs[CHOOSE k \in 1..Len(jobs) : jobs[k].id = id]
JobsOf(t) == {k \in 1..Len(jobs) : jobs[k].task_id = t}

\* Job.should_run
ShouldRun(j) == now >= j.next_run

RECURSIVE InsertJob(_, _)
InsertJob(sorted, j) ==
  IF sorted = <<>> THEN <<j>>
  ELSE IF j.next_run < Head(sorted).next_run THEN <<j>> \o sorted
  ELSE <<Head(sorted)>> \o InsertJob(Tail(sorted), j)

RECURSIVE SortJobs(_)
\* sorted(runnable_jobs): by next_run, stable
SortJobs(js) ==
  IF js = <<>> THEN <<>> ELSE InsertJob(SortJobs(SubSeq(js, 1, Len(js) - 1)), js[Len(js)])

\* the ids of the due jobs in the order run_pending runs them
DueJobIds ==
  LET due == SortJobs(SelectSeq(jobs, ShouldRun))
  IN [k \in 1..Len(due) |-> due[k].id]

\* Job.run after the job function returned: _schedule_next_run
NextRun(j) == now + j.interval

Reschedule(js, id) ==
  [k \in 1..Len(js) |->
     IF js[k].id = id THEN [js[k] EXCEPT !.next_run = NextRun(js[k])] ELSE js[k]]

\* ------------------------------------------------------------------- Init
Init ==
  /\ now = 0
  /\ tasks = [x \in {} |-> NewEntry(NoConfig)]
  /\ jobs = << >>
  /\ next_job_id = 1
  /\ task_results = << >>
  /\ loop_pc = "sleeping"
  /\ wake_at = 0
  /\ runnable = << >>
  /\ units = {}
  /\ removed = {}
  /\ active_connections = [k \in {} |-> 0]
  /\ clients = << >>
  /\ calls = {}
  /\ next_call = 1
  /\ disconnected = {}
  /\ superseded = {}
  /\ threads = [t \in Threads |-> IdleThread]
  /\ lock = NoThread
  /\ answer = NoAnswer
  /\ backends = [s \in ServiceNames |-> "up"]
  /\ exchange = NoExchange
  /\ service_status = [s \in {} |-> "none"]
  /\ probing = 0
  /\ shell = NoShell
  /\ relay = NoRelay
  /\ reply = NoReply
  /\ reader = NoReader

\* Time passes where the code blocks: in time.sleep(1), in the requests of a
\* service call, and once the scheduler thread has ended.  The statements in
\* between take no logical time.
Blocked ==
  \/ loop_pc \in {"sleeping", "dead"}
  \/ \E u \in units : u.pc = "svc"

AdvanceTime ==
  /\ now < MaxTime
  /\ Blocked
  /\ now' = now + 1
  /\ UNCHANGED <<tasks, jobs, next_job_id, task_results, loop_pc, wake_at,
                 runnable, units, removed>>
  /\ UNCHANGED <<cvars, xvars>>

\* ------------------------------------------------------------ HTTP handlers

\* task ids are interchangeable: the first registration is the one of "t1"
InOrder(t) == t = "t1" \/ next_job_id > 1

\* POST /tasks -> add_task: the entry is (over)written, one more job registered
add_task(t, config) ==
  /\ Len(jobs) < MaxJobs
  /\ InOrder(t)
  /\ tasks' = PutTask(t, NewEntry(config))
  /\ jobs' = ScheduleTask(t, config)
  /\ next_job_id' = IF jobs' = jobs THEN next_job_id ELSE next_job_id + 1
  /\ removed' = removed \ {t}
  /\ UNCHANGED <<now, task_results, loop_pc, wake_at, runnable, units>>
  /\ UNCHANGED <<cvars, xvars>>

\* DELETE /tasks/<id> -> remove_task on a registered id: returns True
remove_task(t) ==
  /\ t \in Registered
  /\ tasks' = DelTask(t)
  /\ jobs' = ScheduleClear(jobs, t)
  /\ removed' = removed \cup {t}
  /\ UNCHANGED <<now, next_job_id, task_results, loop_pc, wake_at, runnable, units>>
  /\ UNCHANGED <<cvars, xvars>>

\* ------------------------------------------------------------ run_scheduler

\* mutation: the job function is submitted to the executor, the pass goes on
RunJobSubmits == FALSE

\* schedule.run_pending calls job.run, which calls _execute_task, in the
\* scheduler thread: the next job starts when the call has returned (the
\* module's ThreadPoolExecutor `executor` is never used)
RunJobWaits == TRUE

\* an execution of _execute_task that has read its entry (lines 72-78)
NewUnit(j) ==
  [job |-> j.id, task_id |-> j.task_id, pc |-> "mark",
   config |-> tasks[j.task_id].config, result |-> "none"]

\* while scheduler_running: schedule.run_pending() -- the due jobs, sorted
RunPending ==
  /\ loop_pc = "sleeping"
  /\ now >= wake_at
  /\ DueJobIds # << >>
  /\ loop_pc' = "pending"
  /\ runnable' = DueJobIds
  /\ UNCHANGED <<now, tasks, jobs, next_job_id, task_results, wake_at, units, removed>>
  /\ UNCHANGED <<cvars, xvars>>

\* a pass of run_pending that finds no due job, and the next time.sleep(1)
IdlePass ==
  /\ loop_pc = "sleeping"
  /\ now >= wake_at
  /\ DueJobIds = << >>
  /\ wake_at' = now + SleepSeconds
  /\ UNCHANGED <<now, tasks, jobs, next_job_id, task_results, loop_pc, runnable,
                 units, removed>>
  /\ UNCHANGED <<cvars, xvars>>

\* run_pending runs the next due job: _execute_task reads the entry under the
\* lock and returns when there is none (lines 72-76)
StartJob ==
  /\ loop_pc = "pending"
  /\ runnable # << >>
  /\ RunJobWaits => units = {}
  /\ runnable' = Tail(runnable)
  /\ LET j == JobById(Head(runnable)) IN
       IF TaskFound(j.task_id)
       THEN /\ units' = units \cup {NewUnit(j)}
            /\ UNCHANGED jobs
       ELSE /\ jobs' = Reschedule(jobs, j.id)
            /\ UNCHANGED units
  /\ UNCHANGED <<now, tasks, next_job_id, task_results, loop_pc, wake_at, removed>>
  /\ UNCHANGED <<cvars, xvars>>

\* run_pending is through: time.sleep(1)
FinishPass ==
  /\ loop_pc = "pending"
  /\ runnable = << >>
  /\ RunJobWaits => units = {}
  /\ loop_pc' = "sleeping"
  /\ wake_at' = now + SleepSeconds
  /\ UNCHANGED <<now, tasks, jobs, next_job_id, task_results, runnable, units, removed>>
  /\ UNCHANGED <<cvars, xvars>>

\* ------------------------------------------------------------ _execute_task

\* _execute_task returns: Job.run schedules the next run of the job
Return(u) ==
  /\ units' = units \ {u}
  /\ jobs' = Reschedule(jobs, u.job)
  /\ UNCHANGED <<loop_pc, runnable>>

\* an exception leaves _execute_task: it leaves run_pending and run_scheduler,
\* the scheduler thread ends
Crash(u) ==
  /\ units' = units \ {u}
  /\ loop_pc' = "dead"
  /\ runnable' = << >>
  /\ UNCHANGED jobs

Step(u, v) == units' = (units \ {u}) \cup {v}

\* the entry with status 'running', last_run and run_count updated (lines 82-84)
MarkRunning(entry) ==
  [entry EXCEPT !.status = "running", !.last_run = now, !.run_count = @ + 1]

\* lines 81-84; a missing entry raises KeyError, caught at line 98
Mark(u) ==
  /\ u.pc = "mark"
  /\ IF u.task_id \in Registered
     THEN /\ tasks' = PutTask(u.task_id, MarkRunning(tasks[u.task_id]))
          /\ Step(u, [u EXCEPT !.pc = "svc"])
     ELSE /\ Step(u, [u EXCEPT !.pc = "except"])
          /\ UNCHANGED tasks
  /\ UNCHANGED <<now, jobs, next_job_id, task_results, loop_pc, wake_at, runnable,
                 removed>>
  /\ UNCHANGED <<cvars, xvars>>

\* ------------------------------------------------------------ _call_service

\* the outcome of a call: an exception raised or a result returned, the number
\* of requests sent, and whether any request was answered with an error
Outcome(raised, result, reqs, error) ==
  [raised |-> raised, result |-> result, reqs |-> reqs, error |-> error]

\* _call_ssh_service: connect, which raises unless the answer is 200; execute,
\* whose answer is returned as the result whatever its status; disconnect in
\* the finally clause, its answer ignored
call_ssh_service(connect, execute, disconnect) ==
  IF connect # "ok" THEN Outcome(TRUE, "none", 1, TRUE)
  ELSE IF execute = "exc" \/ disconnect = "exc" THEN Outcome(TRUE, "none", 3, TRUE)
  ELSE Outcome(FALSE, execute, 3, execute = "err" \/ disconnect = "err")

\* _call_api_service and _call_snmp_service: one post, response.json() returned
\* whatever the status of the answer
call_post_service(response) ==
  IF response = "exc" THEN Outcome(TRUE, "none", 1, TRUE)
  ELSE Outcome(FALSE, response, 1, response = "err")

\* mutation: an unknown service_type is answered with an empty success
call_service_lenient(config, r1, r2, r3) ==
  CASE config.service_type = "ssh" -> call_ssh_service(r1, r2, r3)
    [] config.service_type = "api" -> call_post_service(r1)
    [] config.service_type = "snmp" -> call_post_service(r1)
    [] OTHER -> Outcome(FALSE, "ok", 0, FALSE)

\* _call_service: an unknown service_type raises ValueError
call_service(config, r1, r2, r3) ==
  CASE config.service_type = "ssh" -> call_ssh_service(r1, r2, r3)
    [] config.service_type = "api" -> call_post_service(r1)
    [] config.service_type = "snmp" -> call_post_service(r1)
    [] OTHER -> Outcome(TRUE, "none", 0, TRUE)

\* mutation: the result of the call is not stored
SaveNothing(log, t, result) == log

\* mutation: the log keeps the latest result only
SaveLatestOnly(log, t, result) == <<[task_id |-> t, result |-> result]>>

\* task_results[f"{task_id}_{datetime.now().isoformat()}"] = result (line 90);
\* the timestamp has microsecond resolution, so every save adds a new key
SaveResult(log, t, result) == Append(log, [task_id |-> t, result |-> result])

\* lines 86-90: the service is called and what it returns is stored; an
\* exception of the call is caught at line 98.  The call takes time: the clock
\* advances while the execution waits here
Call(u) ==
  /\ u.pc = "svc"
  /\ \E r1, r2, r3 \in Responses :
       LET o == call_service(u.config, r1, r2, r3) IN
         IF o.raised
         THEN /\ Step(u, [u EXCEPT !.pc = "except"])
              /\ UNCHANGED task_results
         ELSE /\ Step(u, [u EXCEPT !.pc = "done", !.result = o.result])
              /\ task_results' = SaveResult(task_results, u.task_id, o.result)
  /\ UNCHANGED <<now, tasks, jobs, next_job_id, loop_pc, wake_at, runnable, removed>>
  /\ UNCHANGED <<cvars, xvars>>

\* status after a call of the service that returned (line 94)
CompletedStatus == "completed"

\* lines 93-96; a missing entry raises KeyError, caught at line 98
Complete(u) ==
  /\ u.pc = "done"
  /\ IF u.task_id \in Registered
     THEN /\ tasks' = PutTask(u.task_id, [tasks[u.task_id] EXCEPT !.status = CompletedStatus])
          /\ Return(u)
     ELSE /\ Step(u, [u EXCEPT !.pc = "except"])
          /\ UNCHANGED <<tasks, jobs, loop_pc, runnable>>
  /\ UNCHANGED <<now, next_job_id, task_results, wake_at, removed>>
  /\ UNCHANGED <<cvars, xvars>>

\* lines 98-101: the handler sets 'failed'; when the entry is missing the
\* handler itself raises KeyError, which nothing catches
Except(u) ==
  /\ u.pc = "except"
  /\ IF u.task_id \in Registered
     THEN /\ tasks' = PutTask(u.task_id, [tasks[u.task_id] EXCEPT !.status = "failed"])
          /\ Return(u)
     ELSE /\ Crash(u)
          /\ UNCHANGED tasks
  /\ UNCHANGED <<now, next_job_id, task_results, wake_at, removed>>
  /\ UNCHANGED <<cvars, xvars>>

\* ------------------------------------------------------------------- Next
Next ==
  \/ AdvanceTime
  \/ \E t \in TaskIds, config \in Configs : add_task(t, config)
  \/ \E t \in TaskIds : remove_task(t)
  \/ RunPending
  \/ IdlePass
  \/ StartJob
  \/ FinishPass
  \/ \E u \in units : Mark(u)
  \/ \E u \in units : Call(u)
  \/ \E u \in units : Complete(u)
  \/ \E u \in units : Except(u)

Spec == Init /\ [][Next]_vars

\* ------------------------------------------ one task, a target that succeeds

\* The scenario of a single task: POST /tasks for "t1" at time 0 with interval
\* 1 second, no other request, every service call returns.  The scheduler
\* thread is punctual here: the clock advances only while the thread is inside
\* time.sleep(1) or inside a service call.
ScenarioConfig ==
  [interval_type |-> "seconds", interval_value |-> 1, service_type |-> "ssh"]

ScenarioRegister ==
  /\ now = 0
  /\ next_job_id = 1
  /\ add_task("t1", ScenarioConfig)

ScenarioAdvanceTime ==
  /\ now < ScenarioSeconds
  /\ \/ loop_pc = "sleeping" /\ now < wake_at
     \/ \E u \in units : u.pc = "svc"
  /\ now' = now + 1
  /\ UNCHANGED <<tasks, jobs, next_job_id, task_results, loop_pc, wake_at,
                 runnable, units, removed>>
  /\ UNCHANGED <<cvars, xvars>>

\* a service call that returns: the connection is made, no request raises
ScenarioCall(u) ==
  /\ Call(u)
  /\ \A v \in units' : v.pc = "done"

ScenarioNext ==
  \/ ScenarioAdvanceTime
  \/ ScenarioRegister
  \/ RunPending
  \/ IdlePass
  \/ StartJob
  \/ FinishPass
  \/ \E u \in units : Mark(u)
  \/ \E u \in units : ScenarioCall(u)
  \/ \E u \in units : Complete(u)

ScenarioSpec == Init /\ [][ScenarioNext]_vars

\* ------------------------------------------------------------ the collector

\* connection_id = f"{host}:{port}:{username}"
ConnKeys == {"k1", "k2"}

\* None: what .get(connection_id) and .pop(connection_id, None) give for an
\* absent key
NoClient == 0

\* how a network operation on a client ends: it returns or it raises
NetOutcomes == {"ok", "raise"}

Live == DOMAIN active_connections

\* self.active_connections[connection_id] = client
PutConnection(reg, key, client) ==
  [k \in DOMAIN reg \cup {key} |-> IF k = key THEN client ELSE reg[k]]

\* self.active_connections.get(connection_id)
GetConnection(reg, key) == IF key \in DOMAIN reg THEN reg[key] ELSE NoClient

\* mutation: the entry stays in the registry
KeepConnection(reg, key) == reg

\* the registry after self.active_connections.pop(connection_id, None)
PopConnection(reg, key) == [k \in DOMAIN reg \ {key} |-> reg[k]]

\* mutation: a connect that fails takes the entry of its key with it
FailedConnectDrops(reg, key) == PopConnection(reg, key)

\* the registry after a connect whose client.connect raised: the except
\* clause returns without touching it
FailedConnect(reg, key) == reg

\* mutation: an execute that fails takes the entry of its key with it
FailedExecuteDrops(reg, key) == PopConnection(reg, key)

\* the registry after an execute whose exec_command raised: the except clause
\* returns without touching it
FailedExecute(reg, key) == reg

\* a client whose connect succeeded
NewClient(key) == [key |-> key, open |-> TRUE, closes |-> 0]

\* mutation: close leaves the client as it is
CloseNothing(cs, h) == cs

\* client.close()
CloseClient(cs, h) ==
  [k \in 1..Len(cs) |->
     IF k = h THEN [cs[k] EXCEPT !.open = FALSE, !.closes = @ + 1] ELSE cs[k]]

\* a request being served: the method it is in, where it is in the method, the
\* client it holds, what it returns
NewCall(op, key, pc, client, result) ==
  [id |-> next_call, op |-> op, key |-> key, pc |-> pc, client |-> client,
   result |-> result]

Accept(c) ==
  /\ next_call <= MaxCalls
  /\ calls' = calls \cup {c}
  /\ next_call' = next_call + 1

Move(c, d) == calls' = (calls \ {c}) \cup {d}

\* connect, lines 35-46 and 51-53: client.connect returns, or raises and the
\* error is returned
connect(key) ==
  /\ \E outcome \in NetOutcomes :
       IF outcome = "ok"
       THEN /\ clients' = Append(clients, NewClient(key))
            /\ Accept(NewCall("connect", key, "register", Len(clients) + 1, "none"))
            /\ UNCHANGED active_connections
       ELSE /\ Accept(NewCall("connect", key, "done", NoClient, "error"))
            /\ active_connections' = FailedConnect(active_connections, key)
            /\ UNCHANGED clients
  /\ UNCHANGED <<disconnected, superseded>>
  /\ UNCHANGED <<vars, xvars>>

\* connect, lines 47-50: the client is stored under the lock
register(c) ==
  /\ c.op = "connect"
  /\ c.pc = "register"
  /\ active_connections' = PutConnection(active_connections, c.key, c.client)
  /\ superseded' = IF c.key \in Live
                   THEN superseded \cup {active_connections[c.key]}
                   ELSE superseded
  /\ disconnected' = disconnected \ {c.key}
  /\ Move(c, [c EXCEPT !.pc = "done", !.result = "connected"])
  /\ UNCHANGED <<clients, next_call>>
  /\ UNCHANGED <<vars, xvars>>

\* execute_command, lines 58-62: the lookup under the lock
execute_command(key) ==
  /\ LET client == GetConnection(active_connections, key) IN
       IF client = NoClient
       THEN Accept(NewCall("execute", key, "done", NoClient, "not_found"))
       ELSE Accept(NewCall("execute", key, "exec", client, "none"))
  /\ UNCHANGED <<active_connections, clients, disconnected, superseded>>
  /\ UNCHANGED <<vars, xvars>>

\* execute_command, lines 64-78: the command runs on the client read at the
\* lookup; on a client closed in the meantime exec_command raises
exec_command(c) ==
  /\ c.op = "execute"
  /\ c.pc = "exec"
  /\ \E outcome \in NetOutcomes :
       IF outcome = "ok" /\ clients[c.client].open
       THEN /\ Move(c, [c EXCEPT !.pc = "done", !.result = "ok"])
            /\ UNCHANGED active_connections
       ELSE /\ Move(c, [c EXCEPT !.pc = "done", !.result = "error"])
            /\ active_connections' = FailedExecute(active_connections, c.key)
  /\ UNCHANGED <<clients, next_call, disconnected, superseded>>
  /\ UNCHANGED <<vars, xvars>>

\* disconnect, lines 83-84 and 89: the pop under the lock
disconnect(key) ==
  /\ LET client == GetConnection(active_connections, key) IN
       IF client = NoClient
       THEN /\ Accept(NewCall("disconnect", key, "done", NoClient, "false"))
            /\ UNCHANGED <<active_connections, disconnected>>
       ELSE /\ Accept(NewCall("disconnect", key, "close", client, "none"))
            /\ active_connections' = PopConnection(active_connections, key)
            /\ disconnected' = disconnected \cup {key}
  /\ UNCHANGED <<clients, superseded>>
  /\ UNCHANGED <<vars, xvars>>

\* disconnect, lines 86-88: the popped client is closed
close(c) ==
  /\ c.op = "disconnect"
  /\ c.pc = "close"
  /\ clients' = CloseClient(clients, c.client)
  /\ Move(c, [c EXCEPT !.pc = "done", !.result = "true"])
  /\ UNCHANGED <<active_connections, next_call, disconnected, superseded>>
  /\ UNCHANGED <<vars, xvars>>

\* the Flask handler sends the answer: the request is over
Respond(c) ==
  /\ c.pc = "done"
  /\ calls' = calls \ {c}
  /\ UNCHANGED <<active_connections, clients, next_call, disconnected, superseded>>
  /\ UNCHANGED <<vars, xvars>>

\* the status of the answer of the handler connect (lines 122-129)
connect_status(result) == IF result = "error" THEN 500 ELSE 200

\* the status of the answer of the handler execute (lines 144-147): every error
\* of execute_command, 'Connection not found' included, is answered 500
execute_status(result) == IF result \in {"error", "not_found"} THEN 500 ELSE 200

\* the status of the answer of the handler disconnect (lines 159-165)
disconnect_status(result) == IF result = "true" THEN 200 ELSE 404

\* the status a request that has returned from its method is answered with
HttpStatus(c) ==
  CASE c.op = "connect" -> connect_status(c.result)
    [] c.op = "execute" -> execute_status(c.result)
    [] c.op = "disconnect" -> disconnect_status(c.result)

CollectorNext ==
  \/ \E key \in ConnKeys : connect(key)
  \/ \E c \in calls : register(c)
  \/ \E key \in ConnKeys : execute_command(key)
  \/ \E c \in calls : exec_command(c)
  \/ \E key \in ConnKeys : disconnect(key)
  \/ \E c \in calls : close(c)
  \/ \E c \in calls : Respond(c)

CollectorSpec == Init /\ [][CollectorNext]_cvars

\* --------------------------------------------------- a close that raises

\* disconnect, lines 86-87 and 90-92: client.close() raises; the except clause
\* logs and returns False.  The entry was popped before; the client is closed
\* or not, depending on where close failed
close_raises(c) ==
  /\ c.op = "disconnect"
  /\ c.pc = "close"
  /\ \E closed \in BOOLEAN :
       clients' = IF closed THEN CloseClient(clients, c.client) ELSE clients
  /\ Move(c, [c EXCEPT !.pc = "done", !.result = "false"])
  /\ UNCHANGED <<active_connections, next_call, disconnected, superseded>>
  /\ UNCHANGED <<vars, xvars>>

CloseNext ==
  \/ \E key \in ConnKeys : connect(key)
  \/ \E c \in calls : register(c)
  \/ \E key \in ConnKeys : execute_command(key)
  \/ \E c \in calls : exec_command(c)
  \/ \E key \in ConnKeys : disconnect(key)
  \/ \E c \in calls : close(c)
  \/ \E c \in calls : close_raises(c)
  \/ \E c \in calls : Respond(c)

CloseSpec == Init /\ [][CloseNext]_cvars

\* --------------------------------------------- the handler of POST /connect

\* required_fields of the handler connect
RequiredFields == {"host", "port", "username", "password"}

\* the body of the 400 answer: its text, and the field names that occur in it
MissingFieldsBody == [error |-> "Missing required fields", fields |-> {}]

\* handler connect, lines 108-120: a request whose JSON object lacks a required
\* field is answered 400 before ssh_collector.connect is called; any other
\* request goes on to connect
post_connect(fields, key) ==
  IF RequiredFields \subseteq fields
  THEN connect(key)
  ELSE /\ answer' = [fields |-> fields, status |-> 400, body |-> MissingFieldsBody]
       /\ UNCHANGED <<threads, lock, backends, exchange, service_status, probing, shell, relay, reply, reader>>
       /\ UNCHANGED <<vars, cvars>>

HandlerNext ==
  \/ \E fields \in SUBSET RequiredFields : post_connect(fields, "k1")
  \/ \E c \in calls : register(c)
  \/ \E c \in calls : Respond(c)

HandlerSpec == Init /\ [][HandlerNext]_<<cvars, xvars>>

\* ------------------------------------------- the collector, statement by statement

\* the operations of the collector that take the registry lock
LockedOps == {"connect", "execute", "disconnect", "list"}

\* statements that talk to a device: client.connect, client.exec_command and
\* the reads of its output, client.close
NetStatements == {"net_connect", "net_exec", "net_close"}

\* statements on the dict active_connections
MapStatements == {"put", "get", "pop", "keys"}

\* mutation: connect dials the device inside the with block
ProgramDialsLocked(op) ==
  CASE op = "connect" -> <<"acquire", "net_connect", "put", "release", "return">>
    [] op = "execute" -> <<"acquire", "get", "release", "check", "net_exec", "return">>
    [] op = "disconnect" -> <<"acquire", "pop", "release", "check", "net_close", "return">>
    [] op = "list" -> <<"acquire", "keys", "release", "return">>

\* the statements of each method in the order of the source: connect (lines
\* 35-51), execute_command (lines 57-75), disconnect (lines 82-89),
\* list_connections (lines 170-171)
Program(op) ==
  CASE op = "connect" -> <<"net_connect", "acquire", "put", "release", "return">>
    [] op = "execute" -> <<"acquire", "get", "release", "check", "net_exec", "return">>
    [] op = "disconnect" -> <<"acquire", "pop", "release", "check", "net_close", "return">>
    [] op = "list" -> <<"acquire", "keys", "release", "return">>

\* the statement a thread is at
Statement(t) ==
  IF threads[t].op = "idle" THEN "idle" ELSE Program(threads[t].op)[threads[t].pc]

\* the client that client.connect gives (the clients are not told apart here)
Connected == 1

\* the thread goes on with the next statement
Advance(t) == threads' = [threads EXCEPT ![t].pc = @ + 1]

\* the except clause: the thread goes to the return of its method
Leave(t) == threads' = [threads EXCEPT ![t].pc = Len(Program(threads[t].op))]

\* a request thread enters a method
thread_call(t, op, key) ==
  /\ threads[t] = IdleThread
  /\ threads' = [threads EXCEPT ![t] = [op |-> op, key |-> key, pc |-> 1, client |-> NoClient]]
  /\ UNCHANGED <<lock, active_connections>>
  /\ UNCHANGED <<clients, calls, next_call, disconnected, superseded>>
  /\ UNCHANGED <<answer, backends, exchange, service_status, probing, shell, relay, reply, reader>>
  /\ UNCHANGED vars

\* with self.lock: entering the block waits until nobody holds the lock
lock_acquire(t) ==
  /\ Statement(t) = "acquire"
  /\ lock = NoThread
  /\ lock' = t
  /\ Advance(t)
  /\ UNCHANGED active_connections
  /\ UNCHANGED <<clients, calls, next_call, disconnected, superseded>>
  /\ UNCHANGED <<answer, backends, exchange, service_status, probing, shell, relay, reply, reader>>
  /\ UNCHANGED vars

\* the statement inside the with block
map_access(t) ==
  /\ Statement(t) \in MapStatements
  /\ LET th == threads[t]
         found == GetConnection(active_connections, th.key)
     IN CASE Statement(t) = "put" ->
               /\ active_connections' = PutConnection(active_connections, th.key, th.client)
               /\ Advance(t)
          [] Statement(t) = "get" ->
               /\ threads' = [threads EXCEPT ![t].pc = @ + 1, ![t].client = found]
               /\ UNCHANGED active_connections
          [] Statement(t) = "pop" ->
               /\ threads' = [threads EXCEPT ![t].pc = @ + 1, ![t].client = found]
               /\ active_connections' = PopConnection(active_connections, th.key)
          [] Statement(t) = "keys" ->
               /\ Advance(t)
               /\ UNCHANGED active_connections
  /\ UNCHANGED lock
  /\ UNCHANGED <<clients, calls, next_call, disconnected, superseded>>
  /\ UNCHANGED <<answer, backends, exchange, service_status, probing, shell, relay, reply, reader>>
  /\ UNCHANGED vars

\* leaving the with block
lock_release(t) ==
  /\ Statement(t) = "release"
  /\ lock' = NoThread
  /\ Advance(t)
  /\ UNCHANGED active_connections
  /\ UNCHANGED <<clients, calls, next_call, disconnected, superseded>>
  /\ UNCHANGED <<answer, backends, exchange, service_status, probing, shell, relay, reply, reader>>
  /\ UNCHANGED vars

\* if not client: return
check_client(t) ==
  /\ Statement(t) = "check"
  /\ IF threads[t].client = NoClient THEN Leave(t) ELSE Advance(t)
  /\ UNCHANGED <<lock, active_connections>>
  /\ UNCHANGED <<clients, calls, next_call, disconnected, superseded>>
  /\ UNCHANGED <<answer, backends, exchange, service_status, probing, shell, relay, reply, reader>>
  /\ UNCHANGED vars

\* the device answers, or the operation raises: a thread stays at this
\* statement for as long as the device takes
net_io(t, outcome) ==
  /\ Statement(t) \in NetStatements
  /\ IF outcome = "ok"
     THEN threads' = [threads EXCEPT ![t].pc = @ + 1,
                                     ![t].client = IF Statement(t) = "net_connect" THEN Connected ELSE @]
     ELSE Leave(t)
  /\ UNCHANGED <<lock, active_connections>>
  /\ UNCHANGED <<clients, calls, next_call, disconnected, superseded>>
  /\ UNCHANGED <<answer, backends, exchange, service_status, probing, shell, relay, reply, reader>>
  /\ UNCHANGED vars

\* return
thread_return(t) ==
  /\ Statement(t) = "return"
  /\ threads' = [threads EXCEPT ![t] = IdleThread]
  /\ UNCHANGED <<lock, active_connections>>
  /\ UNCHANGED <<clients, calls, next_call, disconnected, superseded>>
  /\ UNCHANGED <<answer, backends, exchange, service_status, probing, shell, relay, reply, reader>>
  /\ UNCHANGED vars

LockNext ==
  \/ \E t \in Threads, op \in LockedOps, key \in ConnKeys : thread_call(t, op, key)
  \/ \E t \in Threads : lock_acquire(t)
  \/ \E t \in Threads : map_access(t)
  \/ \E t \in Threads : lock_release(t)
  \/ \E t \in Threads : check_client(t)
  \/ \E t \in Threads, outcome \in NetOutcomes : net_io(t, outcome)
  \/ \E t \in Threads : thread_return(t)

LockSpec == Init /\ [][LockNext]_<<cvars, xvars>>

\* ------------------------------------------------- the shell invocation, step by step

\* the connection_id of the invocation's config
UnitKey == "k1"

\* what the post of /api/ssh/connect comes to: the collector registers a
\* session and its 200 arrives; the collector answers 500 or cannot be
\* reached; or the gateway gives up after its timeout of 30 seconds (503)
\* while the collector goes on, connects and registers the session
ConnectOutcomes == {"connected", "failed", "unanswered"}

\* what the post of /api/ssh/execute comes to: a JSON answer with a result or
\* with an error, or an exception of requests.post or of .json()
ExecuteOutcomes == {"ok", "err", "exc"}

\* what the post of /api/ssh/disconnect comes to: the collector pops and
\* closes the session; the gateway answers 503 without the collector having
\* seen the request; or requests.post raises
DisconnectOutcomes == {"ok", "unavailable", "exc"}

\* the collector's connect for the invocation: a new client under its key
UnitRegister ==
  /\ clients' = Append(clients, NewClient(UnitKey))
  /\ active_connections' = PutConnection(active_connections, UnitKey, Len(clients) + 1)

\* the scheduler thread enters _call_ssh_service
ssh_dispatch ==
  /\ shell.pc \in {"idle", "ended"}
  /\ shell.units < MaxUnits
  /\ shell' = [NoShell EXCEPT !.pc = "connect", !.units = shell.units + 1]
  /\ UNCHANGED <<clients, active_connections>>
  /\ UNCHANGED <<calls, next_call, disconnected, superseded>>
  /\ UNCHANGED <<threads, lock, answer, backends, exchange, service_status, probing,
                 relay, reply, reader>>
  /\ UNCHANGED vars

\* lines 122-130: the post of connect; any status but 200 raises
ssh_connect(outcome) ==
  /\ shell.pc = "connect"
  /\ IF outcome = "failed"
     THEN UNCHANGED <<clients, active_connections>>
     ELSE UnitRegister
  /\ shell' = [shell EXCEPT
       !.sent = Append(@, "connect"),
       !.connected = (outcome = "connected"),
       !.opened = IF outcome = "failed" THEN NoClient ELSE Len(clients) + 1,
       !.raised = (outcome # "connected"),
       !.pc = IF outcome = "connected" THEN "execute" ELSE "ended"]
  /\ UNCHANGED <<calls, next_call, disconnected, superseded>>
  /\ UNCHANGED <<threads, lock, answer, backends, exchange, service_status, probing,
                 relay, reply, reader>>
  /\ UNCHANGED vars

\* lines 132-142: the post of execute inside the try
ssh_execute(outcome) ==
  /\ shell.pc = "execute"
  /\ shell' = [shell EXCEPT
       !.sent = Append(@, "execute"),
       !.result = IF outcome = "exc" THEN "none" ELSE outcome,
       !.raised = (outcome = "exc"),
       !.pc = "disconnect"]
  /\ UNCHANGED <<clients, active_connections>>
  /\ UNCHANGED <<calls, next_call, disconnected, superseded>>
  /\ UNCHANGED <<threads, lock, answer, backends, exchange, service_status, probing,
                 relay, reply, reader>>
  /\ UNCHANGED vars

\* lines 144-151: the post of disconnect in the finally clause, its answer
\* ignored, then the return or the exception
ssh_disconnect(outcome) ==
  /\ shell.pc = "disconnect"
  /\ IF outcome = "ok"
     THEN LET h == GetConnection(active_connections, UnitKey)
          IN /\ active_connections' = PopConnection(active_connections, UnitKey)
             /\ clients' = IF h = NoClient THEN clients ELSE CloseClient(clients, h)
     ELSE UNCHANGED <<clients, active_connections>>
  /\ shell' = [shell EXCEPT
       !.sent = Append(@, "disconnect"),
       !.raised = @ \/ outcome = "exc",
       !.result = IF @ # "none" /\ outcome = "exc" THEN "none" ELSE @,
       !.pc = "ended"]
  /\ UNCHANGED <<calls, next_call, disconnected, superseded>>
  /\ UNCHANGED <<threads, lock, answer, backends, exchange, service_status, probing,
                 relay, reply, reader>>
  /\ UNCHANGED vars

UnitNext ==
  \/ ssh_dispatch
  \/ \E outcome \in ConnectOutcomes : ssh_connect(outcome)
  \/ \E outcome \in ExecuteOutcomes : ssh_execute(outcome)
  \/ \E outcome \in DisconnectOutcomes : ssh_disconnect(outcome)

UnitSpec == Init /\ [][UnitNext]_<<cvars, xvars>>

\* ------------------------------- the shell invocation and another client

\* the post of execute as the collector serves it: without an entry for the
\* connection_id the answer is the error 'Connection not found'
ssh_execute_served(outcome) ==
  /\ GetConnection(active_connections, UnitKey) = NoClient => outcome = "err"
  /\ ssh_execute(outcome)

\* one shell invocation
ssh_dispatch_once ==
  /\ shell.units = 0
  /\ ssh_dispatch

\* One shell invocation of the scheduler, and requests of another client of
\* the collector for the same host, port and username: its connection_id is
\* the same, f"{host}:{port}:{username}"
SharedKeyNext ==
  \/ ssh_dispatch_once
  \/ \E outcome \in ConnectOutcomes : ssh_connect(outcome)
  \/ \E outcome \in ExecuteOutcomes : ssh_execute_served(outcome)
  \/ \E outcome \in DisconnectOutcomes : ssh_disconnect(outcome)
  \/ connect(UnitKey)
  \/ \E c \in calls : register(c)
  \/ disconnect(UnitKey)
  \/ \E c \in calls : close(c)

SharedKeySpec == Init /\ [][SharedKeyNext]_<<cvars, xvars>>

\* --------------------------------------------------------------- the gateway

\* methods of the route /api/<service_name>/<path>
Methods == {"GET", "POST", "PUT", "DELETE"}

\* service names of requests: the directory's and one that is not in it
RequestedServices == ServiceNames \cup {"ftp"}

\* a backend answers every request (up), answers its health operation with an
\* error status (failing), refuses connections (down) or does not answer
\* within the timeout (slow)
Conditions == {"up", "failing", "down", "slow"}

\* what a backend that is reached answers: a status, and a body that is JSON
\* or is not (the HTML page of an unhandled exception or of a wrong method)
BackendAnswers == [status : {200, 500}, json : BOOLEAN]

\* no answer received
NoBackendAnswer == [status |-> 0, json |-> FALSE]

\* the environment: a backend goes up or down
BackendChanges(s, cond) ==
  /\ backends[s] # cond
  /\ backends' = [backends EXCEPT ![s] = cond]
  /\ UNCHANGED <<threads, lock, answer, exchange, service_status, probing, shell, relay, reply, reader>>
  /\ UNCHANGED <<vars, cvars>>

\* mutation: only a refused connection counts, a timeout does not
UnreachableRefusedOnly(cond) == cond = "down"

\* requests.get/post/put/delete raises a RequestException (ConnectionError,
\* Timeout) instead of returning a response
Unreachable(cond) == cond \in {"down", "slow"}

\* response.json() on a body that is not JSON raises JSONDecodeError: a
\* RequestException in requests 2.27 and later, caught at line 69 (503); a
\* plain ValueError before, which leaves the handler (Flask answers 500)
DecodeFailureStatus == {503, 500}

\* mutation: an unknown service is answered like an unreachable one
service_unknown_as_unavailable(service_name, method) ==
  [service |-> service_name, method |-> method, sent |-> FALSE, cond |-> "none",
   backend |-> NoBackendAnswer, status |-> 503, body |-> "unavailable"]

\* proxy_request, lines 50-51: the name is not in SERVICES
service_not_found(service_name, method) ==
  [service |-> service_name, method |-> method, sent |-> FALSE, cond |-> "none",
   backend |-> NoBackendAnswer, status |-> 404, body |-> "not_found"]

\* proxy_request, lines 53-71: the request is sent with the method's function;
\* a RequestException is answered 503, a response is answered with its JSON
\* and its status
forward(service_name, method, ans, decode_status) ==
  IF Unreachable(backends[service_name])
  THEN [service |-> service_name, method |-> method, sent |-> TRUE,
        cond |-> backends[service_name], backend |-> NoBackendAnswer,
        status |-> 503, body |-> "unavailable"]
  ELSE IF ans.json
  THEN [service |-> service_name, method |-> method, sent |-> TRUE,
        cond |-> backends[service_name], backend |-> ans,
        status |-> ans.status, body |-> "backend_body"]
  ELSE [service |-> service_name, method |-> method, sent |-> TRUE,
        cond |-> backends[service_name], backend |-> ans,
        status |-> decode_status,
        body |-> IF decode_status = 503 THEN "unavailable" ELSE "internal_error"]

\* proxy_request
proxy_request(service_name, method) ==
  /\ probing = 0
  /\ IF service_name \notin ServiceNames
     THEN exchange' = service_not_found(service_name, method)
     ELSE \E ans \in BackendAnswers, decode_status \in DecodeFailureStatus :
            exchange' = forward(service_name, method, ans, decode_status)
  /\ UNCHANGED <<threads, lock, answer, backends, service_status, probing, shell, relay, reply, reader>>
  /\ UNCHANGED <<vars, cvars>>

\* what requests.get(f"{service_url}/health", timeout=5) comes back with
HealthAnswer(cond) ==
  CASE cond = "up" -> "200"
    [] cond = "failing" -> "500"
    [] cond = "down" -> "ConnectionError"
    [] cond = "slow" -> "Timeout"

\* mutation: an endpoint that cannot be reached is reported like one that
\* answers with an error status
ProbeStatusByAnswer(probe) == IF probe = "200" THEN "healthy" ELSE "unhealthy"

\* list_services, lines 79-91: 'status' of the entry
ProbeStatus(probe) ==
  IF probe \in {"ConnectionError", "Timeout"} THEN "unavailable"
  ELSE IF probe = "200" THEN "healthy" ELSE "unhealthy"

\* list_services, line 76: service_status = {}
start_list ==
  /\ probing = 0
  /\ probing' = 1
  /\ service_status' = [s \in {} |-> "none"]
  /\ UNCHANGED <<threads, lock, answer, backends, exchange, shell, relay, reply, reader>>
  /\ UNCHANGED <<vars, cvars>>

\* list_services, lines 78-91: one turn of the loop; the entry keeps what the
\* health request came back with
probe_service ==
  /\ probing \in 1..Len(SERVICES)
  /\ LET s == SERVICES[probing]
         probe == HealthAnswer(backends[s])
     IN service_status' =
          [x \in DOMAIN service_status \cup {s} |->
             IF x = s THEN [status |-> ProbeStatus(probe), probe |-> probe]
             ELSE service_status[x]]
  /\ probing' = probing + 1
  /\ UNCHANGED <<threads, lock, answer, backends, exchange, shell, relay, reply, reader>>
  /\ UNCHANGED <<vars, cvars>>

\* list_services, line 93: return jsonify(service_status)
return_list ==
  /\ probing = Len(SERVICES) + 1
  /\ probing' = 0
  /\ UNCHANGED <<threads, lock, answer, backends, exchange, service_status, shell, relay, reply, reader>>
  /\ UNCHANGED <<vars, cvars>>

GatewayNext ==
  \/ \E s \in ServiceNames, cond \in Conditions : BackendChanges(s, cond)
  \/ \E service_name \in RequestedServices, method \in Methods :
       proxy_request(service_name, method)
  \/ start_list
  \/ probe_service
  \/ return_list

GatewaySpec == Init /\ [][GatewayNext]_xvars

\* ------------------------------------------------------------- GET /tasks

\* the fields of an entry that _execute_task updates
EntryFields == {"status", "last_run", "run_count"}

FieldOf(entry, f) ==
  CASE f = "status" -> entry.status
    [] f = "last_run" -> entry.last_run
    [] f = "run_count" -> entry.run_count

\* list_tasks, line 234: get_tasks returns dict(self.tasks), made under the
\* lock: a new dict with the same entry objects as the table.  `taken` is
\* what the entries held at that instant
list_tasks_copy ==
  /\ reader.pc \in {"idle", "returned"}
  /\ reader' = [pc |-> "copied", keys |-> Registered, taken |-> get_tasks,
                seen |-> [t \in Registered |-> [f \in {} |-> 0]]]
  /\ UNCHANGED <<threads, lock, answer, backends, exchange, service_status, probing,
                 shell, relay, reply>>
  /\ UNCHANGED <<vars, cvars>>

\* list_tasks, lines 235-239: jsonify reads the fields of the entries, without
\* the lock, through the entry objects the table holds too (the task is
\* registered once here, so the entry of a key is the same object throughout)
list_tasks_read(t, f) ==
  /\ reader.pc = "copied"
  /\ t \in reader.keys
  /\ t \in Registered
  /\ f \notin DOMAIN reader.seen[t]
  /\ reader' = [reader EXCEPT !.seen[t] =
                  [g \in DOMAIN reader.seen[t] \cup {f} |->
                     IF g = f THEN FieldOf(tasks[t], f) ELSE reader.seen[t][g]]]
  /\ UNCHANGED <<threads, lock, answer, backends, exchange, service_status, probing,
                 shell, relay, reply>>
  /\ UNCHANGED <<vars, cvars>>

\* list_tasks: the answer is sent
list_tasks_return ==
  /\ reader.pc = "copied"
  /\ \A t \in reader.keys : DOMAIN reader.seen[t] = EntryFields
  /\ reader' = [reader EXCEPT !.pc = "returned"]
  /\ UNCHANGED <<threads, lock, answer, backends, exchange, service_status, probing,
                 shell, relay, reply>>
  /\ UNCHANGED <<vars, cvars>>

SnapshotNext ==
  \/ ScenarioAdvanceTime
  \/ ScenarioRegister
  \/ RunPending
  \/ IdlePass
  \/ StartJob
  \/ FinishPass
  \/ \E u \in units : Mark(u)
  \/ \E u \in units : ScenarioCall(u)
  \/ \E u \in units : Complete(u)
  \/ list_tasks_copy
  \/ \E t \in TaskIds, f \in EntryFields : list_tasks_read(t, f)
  \/ list_tasks_return

SnapshotSpec == Init /\ [][SnapshotNext]_<<vars, xvars>>

\* ------------------------------------------------------ DELETE /tasks/<id>

\* mutation: the handler answers 200 whatever remove_task returned
delete_status_always_ok(success) == 200

\* delete_task, lines 246-252: 200 'deleted' when remove_task returned True,
\* 404 'Task not found' otherwise
delete_status(success) == IF success THEN 200 ELSE 404

\* DELETE /tasks/<id> -> delete_task -> remove_task, for any task id: the
\* entry is deleted and schedule.clear called when the id is in the table
\* (lines 177-183), nothing is done when it is not (line 184)
delete_task(t) ==
  /\ IF t \in Registered
     THEN /\ tasks' = DelTask(t)
          /\ jobs' = ScheduleClear(jobs, t)
          /\ removed' = removed \cup {t}
     ELSE UNCHANGED <<tasks, jobs, removed>>
  /\ reply' = [task_id |-> t, status |-> delete_status(t \in Registered)]
  /\ UNCHANGED <<now, next_job_id, task_results, loop_pc, wake_at, runnable, units>>
  /\ UNCHANGED <<threads, lock, answer, backends, exchange, service_status, probing,
                 shell, relay, reader>>
  /\ UNCHANGED cvars

\* the scenario of one task registered once, with DELETE requests for its id
\* and for an id that was never registered, at any moment
DeleteNext ==
  \/ ScenarioAdvanceTime
  \/ ScenarioRegister
  \/ \E t \in TaskIds : delete_task(t)
  \/ RunPending
  \/ IdlePass
  \/ StartJob
  \/ FinishPass
  \/ \E u \in units : Mark(u)
  \/ \E u \in units : ScenarioCall(u)
  \/ \E u \in units : Complete(u)
  \/ \E u \in units : Except(u)

DeleteSpec == Init /\ [][DeleteNext]_<<vars, xvars>>

\* ------------------------------------------------ what POST /tasks accepts

\* create_task checks that 'task_id' and 'config' are there and nothing of
\* the config: an interval_type _schedule_task has no branch for is accepted
AcceptedIntervalTypes == {"seconds", "weeks"}

AcceptedConfigs ==
  [interval_type : AcceptedIntervalTypes, interval_value : IntervalValues,
   service_type : {"ssh"}]

AcceptNext ==
  \/ AdvanceTime
  \/ \E t \in TaskIds, config \in AcceptedConfigs : add_task(t, config)
  \/ RunPending
  \/ IdlePass
  \/ StartJob
  \/ FinishPass
  \/ \E u \in units : Mark(u)
  \/ \E u \in units : Call(u)
  \/ \E u \in units : Complete(u)
  \/ \E u \in units : Except(u)

AcceptSpec == Init /\ [][AcceptNext]_vars

\* ------------------------------------------- the request the gateway sends on

\* paths, JSON bodies and query strings of inbound requests; "none": absent
Paths == {"connect", "execute"}
Bodies == {"none", "b1"}
QueryArgs == {"none", "q1"}

InboundRequests ==
  [service : RequestedServices, method : Methods, path : Paths, json : Bodies,
   args : QueryArgs]

\* lines 53-65: target_url is the service's URL and the path; requests.get gets
\* params=request.args, requests.post and requests.put get
\* json=request.get_json(), requests.delete gets neither
BackendRequest(req) ==
  CASE req.method = "GET" -> [req EXCEPT !.json = "none"]
    [] req.method \in {"POST", "PUT"} -> [req EXCEPT !.args = "none"]
    [] req.method = "DELETE" -> [req EXCEPT !.json = "none", !.args = "none"]

\* request.get_json() of a POST or PUT without a JSON body: None, or, in the
\* Flask versions that raise for it, an error answer before anything is sent
ForwardedRequests(req) ==
  IF req.method \in {"POST", "PUT"} /\ req.json = "none"
  THEN {BackendRequest(req), NoRequest}
  ELSE {BackendRequest(req)}

\* the answer Flask gives when request.get_json() raises
rejected_body(service_name, method) ==
  [service |-> service_name, method |-> method, sent |-> FALSE, cond |-> "none",
   backend |-> NoBackendAnswer, status |-> 415, body |-> "unsupported"]

\* proxy_request, with what the inbound request carries and what is sent on
proxy_request_of(req) ==
  /\ probing = 0
  /\ IF req.service \notin ServiceNames
     THEN /\ exchange' = service_not_found(req.service, req.method)
          /\ relay' = [inbound |-> req, outbound |-> NoRequest]
     ELSE \E out \in ForwardedRequests(req) :
            /\ relay' = [inbound |-> req, outbound |-> out]
            /\ IF out = NoRequest
               THEN exchange' = rejected_body(req.service, req.method)
               ELSE \E ans \in BackendAnswers, decode_status \in DecodeFailureStatus :
                      exchange' = forward(req.service, req.method, ans, decode_status)
  /\ UNCHANGED <<threads, lock, answer, backends, service_status, probing, shell,
                 reply, reader>>
  /\ UNCHANGED <<vars, cvars>>

ForwardNext == \E req \in InboundRequests : proxy_request_of(req)

ForwardSpec == Init /\ [][ForwardNext]_xvars

\* ================================================================ claims

\* the executions of _execute_task for t that are past the read of the entry
InFlight(t) == {u \in units : u.task_id = t}

\* the entries of the result log that belong to t
ResultsOf(t) == SelectSeq(task_results, LAMBDA r : r.task_id = t)

\* C1: in every reachable state at most one execution of _execute_task is in
\* flight for a task id, whatever the ticks, registrations (of the same id
\* too) and deletions.
C1_SingleFlight == \A t \in TaskIds : Cardinality(InFlight(t)) <= 1

\* C1 witness: an execution of a task is waiting for its service while a
\* second job of the same task id is due in the same pass.
C1_SecondJobDueWhileInFlight ==
  \E u \in units :
    /\ u.pc = "svc"
    /\ runnable # << >>
    /\ JobById(Head(runnable)).task_id = u.task_id

\* C2 (as claimed): whenever the next run of a registered task's job is
\* recomputed it becomes the previous next run plus the interval, whatever the
\* execution took and however it ended.
C2_FixedRate ==
  [][\A k \in 1..Len(jobs) :
       (k <= Len(jobs') /\ jobs'[k].id = jobs[k].id
          /\ jobs[k].task_id \in Registered
          /\ jobs'[k].next_run # jobs[k].next_run)
       => jobs'[k].next_run = jobs[k].next_run + jobs[k].interval]_vars

\* C3 (as claimed): a firing of a task (a step that increments run_count)
\* comes at least one interval after the previous firing recorded in last_run.
C3_MinSpacing ==
  [][\A t \in Registered \cap DOMAIN tasks' :
       (tasks'[t].run_count = tasks[t].run_count + 1 /\ tasks[t].last_run # NoneTime)
       => now - tasks[t].last_run >= Period(tasks[t].config)]_vars

C5_RemoveCancelsJobs == \A t \in removed : JobsOf(t) = {}

\* C6 (as claimed): an execution whose task was deleted after it read the
\* entry ends without an exception leaving _execute_task and adds nothing to
\* the result log.
C6_RemovedInFlightIsDiscarded ==
  [][\A u \in units :
       u.task_id \in removed => loop_pc' # "dead" /\ task_results' = task_results]_vars

\* C7 (as claimed): the tick loop of run_scheduler is running in every
\* reachable state.
C7_TickLoopRuns == loop_pc # "dead"

\* C8 (as claimed): a task whose firing failed stays registered and fires
\* again at its next due time whatever happens to the other tasks; for that
\* the tick loop has to be running whenever a registered task is 'failed'.
C8_FailedTaskFiresAgain ==
  \A t \in Registered : tasks[t].status = "failed" => loop_pc # "dead"

\* C9: a firing whose service call succeeded appends exactly one entry to the
\* result log, for its task, and ends with the task's status 'completed' when
\* the task is registered at that moment.
C9_SuccessCompletes ==
  [][/\ \A r1, r2, r3 \in {"ok"} :
          call_service([NoConfig EXCEPT !.service_type = "ssh"], r1, r2, r3)
            = Outcome(FALSE, "ok", 3, FALSE)
     /\ \A u \in units :
          /\ u.pc = "svc" =>
               \A v \in units' \ units :
                 v.pc = "done" =>
                   task_results' = Append(task_results,
                                          [task_id |-> u.task_id, result |-> v.result])
          /\ (u.pc = "done" /\ u.result = "ok") =>
               /\ task_results' = task_results
               /\ (u.task_id \in Registered /\ u \notin units') =>
                    /\ u.task_id \in DOMAIN tasks'
                    /\ tasks'[u.task_id].status = "completed"]_vars

\* C9 witness: a task is 'completed' and the log holds a successful result of it.
C9_CompletedWithResult ==
  \E t \in Registered :
    /\ tasks[t].status = "completed"
    /\ \E k \in 1..Len(task_results) : task_results[k] = [task_id |-> t, result |-> "ok"]

\* C10 (as claimed): a firing sets 'completed' only when every request of its
\* service call was answered with success.
C10_CompletedOnlyOnSuccess ==
  [][\A u \in units :
       (u.pc = "done" /\ u \notin units' /\ u.task_id \in DOMAIN tasks'
          /\ tasks'[u.task_id].status = "completed")
       => u.result = "ok"]_vars

\* C11 (as claimed): the result log of a task holds one entry for each of its
\* firings that has ended, the failed ones included.  A task with one job was
\* registered once and never removed, so run_count counts all its firings.
C11_LogCountsFirings ==
  \A t \in Registered :
    (Cardinality(JobsOf(t)) = 1 /\ InFlight(t) = {})
    => Len(ResultsOf(t)) = tasks[t].run_count

\* C13 (as claimed): the status of a task id that stays in the table changes
\* only along scheduled -> running -> {completed, failed} -> running.
C13_StatusTransitions ==
  [][\A t \in Registered \cap DOMAIN tasks' :
       tasks'[t].status # tasks[t].status
       => <<tasks[t].status, tasks'[t].status>>
            \in {<<"scheduled", "running">>, <<"running", "completed">>,
                 <<"running", "failed">>, <<"completed", "running">>,
                 <<"failed", "running">>}]_vars

\* C14 (as claimed): while an execution of one task waits for its service, the
\* next due job of the pass, of another task, can start.
C14_TickNotBlocked ==
  \A u \in units :
    (u.pc = "svc" /\ runnable # << >> /\ JobById(Head(runnable)).task_id # u.task_id)
    => ENABLED StartJob


\* C12 (as claimed): in the scenario, with a target that succeeded every
\* time, when the pass of second ScenarioSeconds is over the task has fired
\* ScenarioSeconds times, is 'completed' and has ScenarioSeconds entries in the
\* result log.
C12_ScenarioCounts ==
  ("t1" \in Registered /\ now = ScenarioSeconds
     /\ loop_pc = "sleeping" /\ wake_at > now
     /\ \A k \in 1..Len(task_results) : task_results[k].result = "ok")
  => /\ tasks["t1"].run_count = ScenarioSeconds
     /\ tasks["t1"].status = "completed"
     /\ Len(ResultsOf("t1")) = ScenarioSeconds


\* the request a step has accepted
Arriving == {c \in calls' : c.id = next_call}

\* the request c after a step, when it is still being served
After(c) == {d \in calls' : d.id = c.id}

\* the clients of a key that are open
OpenClients(key) == {h \in 1..Len(clients) : clients[h].key = key /\ clients[h].open}

\* C15: once a disconnect has removed the entry of a key, and until a connect
\* stores one again, every execute_command on the key returns 'Connection not
\* found' at its lookup and runs no command: no client is touched.
C15_ExecuteAfterDisconnect ==
  [][\A c \in Arriving :
       (c.op = "execute" /\ c.key \in disconnected)
       => /\ c.pc = "done"
          /\ c.result = "not_found"
          /\ c.client = NoClient
          /\ clients' = clients]_cvars

\* C15 witness: an execute_command on a key that was connected and then
\* disconnected has returned 'Connection not found'.
C15_NotFoundAfterDisconnect ==
  \E c \in calls :
    /\ c.op = "execute"
    /\ c.result = "not_found"
    /\ c.key \in disconnected
    /\ \E h \in 1..Len(clients) : clients[h].key = c.key /\ ~clients[h].open

\* C16 (as claimed): a client whose registry entry was overwritten by a
\* connect is closed when the new client is in the registry.
C16_SupersededIsClosed == \A h \in superseded : ~clients[h].open

\* C17 (as claimed): a key never has two open clients.
C17_OneOpenClientPerKey == \A key \in ConnKeys : Cardinality(OpenClients(key)) <= 1

C19_FailedConnectKeepsRegistry ==
  [][/\ \A c \in Arriving :
          (c.op = "connect" /\ c.pc = "done")
          => /\ c.result = "error"
             /\ active_connections' = active_connections
             /\ clients' = clients
     /\ \A c \in calls :
          (c.op = "connect" /\ After(c) # {c})
          => \A d \in After(c) : d.result = "connected" /\ c.client # NoClient]_cvars

\* C19 witness: a connect on a key that has an entry has failed, the entry is
\* there.
C19_FailedConnectOnLiveKey ==
  \E c \in calls :
    /\ c.op = "connect"
    /\ c.result = "error"
    /\ c.key \in Live

\* C20: an execute_command whose command fails returns the error and changes
\* neither the registry nor any client: the entry of the key holds the same
\* client as before.
C20_FailedExecuteKeepsSession ==
  [][\A c \in calls :
       (c.op = "execute" /\ c.pc = "exec"
          /\ \E d \in After(c) : d.result = "error")
       => /\ active_connections' = active_connections
          /\ clients' = clients]_cvars

\* C20 witness: an execute_command has failed on an open client, and a later
\* execute_command on the key has found the same client and is about to run
\* its command on it.
C20_ExecuteAfterFailedExecute ==
  \E c, d \in calls :
    /\ c.op = "execute" /\ d.op = "execute"
    /\ c.result = "error"
    /\ d.id > c.id
    /\ d.pc = "exec"
    /\ d.client = c.client
    /\ clients[c.client].open
    /\ GetConnection(active_connections, c.key) = c.client


\* C22 (as claimed): a request that names a key absent from the registry is
\* answered with status 404.
C22_AbsentKeyIs404 ==
  \A c \in calls :
    (c.pc = "done" /\ c.result \in {"not_found", "false"}) => HttpStatus(c) = 404

\* C28: the result log only grows at its end: every step leaves the entries
\* there are as they are and where they are, also the steps that delete a task
\* or register it again.
C28_ResultLogAppendOnly ==
  [][/\ Len(task_results') >= Len(task_results)
     /\ SubSeq(task_results', 1, Len(task_results)) = task_results]_vars

\* C28 witness: the log holds a result of a task that has been deleted since,
\* and a later result behind it.
C28_ResultsOfRemovedTaskKept ==
  \E t \in removed :
    \E k \in 1..Len(task_results) : task_results[k].task_id = t /\ k < Len(task_results)

\* C29 (as claimed): an execute_command whose command succeeded writes to the
\* registry entry of its key (the time of the last activity).
C29_ExecuteUpdatesActivity ==
  [][\A c \in calls :
       (c.op = "execute" /\ c.pc = "exec" /\ c.key \in Live
          /\ \E d \in After(c) : d.result = "ok")
       => active_connections' # active_connections]_cvars


\* C21 (as claimed): a POST /connect that lacks a required field is answered
\* 400 with a body that names a field that is missing, and the answer comes
\* without a connection attempt and without a change of the registry.
C21_MissingFieldNamed ==
  [][answer' # answer
     => /\ answer'.status = 400
        /\ (RequiredFields \ answer'.fields) \cap answer'.body.fields # {}
        /\ clients' = clients
        /\ calls' = calls
        /\ active_connections' = active_connections]_<<cvars, xvars>>


\* C24: a request for a service name that is not in the directory is answered
\* 404, service not found, and nothing has been sent to a backend for it.
C24_UnknownServiceIs404 ==
  (exchange # NoExchange /\ exchange.service \notin ServiceNames)
  => /\ exchange.status = 404
     /\ exchange.body = "not_found"
     /\ ~exchange.sent
     /\ exchange.backend = NoBackendAnswer

\* C24 witness: a request for the service name "ftp" has been answered.
C24_UnknownServiceAsked == exchange.service = "ftp" /\ exchange.method = "POST"

\* C25: a request to a directory entry whose backend refuses the connection
\* or does not answer in time is answered 503 whatever its method, and an
\* entry that list_services made from such a health request says
\* 'unavailable'.
C25_UnreachableIs503 ==
  /\ (exchange.sent /\ exchange.cond \in {"down", "slow"})
     => exchange.status = 503 /\ exchange.body = "unavailable"
  /\ \A s \in DOMAIN service_status :
       service_status[s].probe \in {"ConnectionError", "Timeout"}
       => service_status[s].status = "unavailable"

\* C25 witness: with the backend of "ssh" not answering in time, a DELETE to
\* it has been answered 503 and the list of services says 'unavailable'.
C25_SlowBackendSeenTwice ==
  /\ backends["ssh"] = "slow"
  /\ exchange.service = "ssh" /\ exchange.method = "DELETE" /\ exchange.status = 503
  /\ probing = 0
  /\ "ssh" \in DOMAIN service_status
  /\ service_status["ssh"].status = "unavailable"

\* C26 (as claimed): every answer a backend gives comes back from
\* proxy_request with the backend's status and the backend's body.
C26_AnswerPassedUnchanged ==
  (exchange.sent /\ exchange.backend # NoBackendAnswer)
  => exchange.status = exchange.backend.status /\ exchange.body = "backend_body"

\* C27: list_services goes through the directory without stopping: whatever
\* the backends do, the next health request can be made, an entry once made
\* is not changed by the requests that follow, and what is returned has one
\* entry for each directory entry, 'healthy' for an answer 200, 'unhealthy'
\* for another status, 'unavailable' for no answer.
C27_ListServicesComplete ==
  [][/\ probing \in 1..Len(SERVICES) => ENABLED probe_service
     /\ (probing \in 1..Len(SERVICES) /\ probing' = probing + 1)
        => /\ DOMAIN service_status' = DOMAIN service_status \cup {SERVICES[probing]}
           /\ \A s \in DOMAIN service_status : service_status'[s] = service_status[s]
     /\ probing' = Len(SERVICES) + 1
        => /\ DOMAIN service_status' = ServiceNames
           /\ \A s \in ServiceNames :
                service_status'[s].status =
                  CASE service_status'[s].probe = "200" -> "healthy"
                    [] service_status'[s].probe = "500" -> "unhealthy"
                    [] OTHER -> "unavailable"]_xvars

\* C27 witness: a list is about to be returned whose entries differ: one
\* endpoint could not be reached, the one probed after it is healthy.
C27_MixedList ==
  /\ probing = Len(SERVICES) + 1
  /\ service_status["ssh"].status = "unavailable"
  /\ service_status["api"].status = "healthy"


\* C30: the thread that holds the registry lock is at a statement on the
\* dict or at the end of its with block, never at a statement that talks to
\* a device; so while a thread waits for a device, a thread that wants the
\* lock finds it free or held by a thread that needs no device to release it.
C30_NoNetworkUnderLock ==
  /\ \A t \in Threads : Statement(t) \in NetStatements => lock # t
  /\ lock # NoThread => Statement(lock) \in MapStatements \cup {"release"}
  /\ \A t, u \in Threads :
       (Statement(t) \in NetStatements /\ Statement(u) = "acquire" /\ lock = NoThread)
       => ENABLED lock_acquire(u)

\* C30 witness: one thread is in a command on the device of k1 while another
\* holds the lock for k2.
C30_LockTakenDuringCommand ==
  \E t, u \in Threads :
    /\ Statement(t) = "net_exec" /\ threads[t].key = "k1"
    /\ lock = u /\ threads[u].key = "k2" /\ Statement(u) \in MapStatements


\* C23 (as claimed): when a shell invocation has ended, either its connect
\* failed, connect is the only request it sent and no session exists for it,
\* or its connect succeeded, it sent connect, execute and disconnect in this
\* order, and the session it opened is closed and out of the registry.
C23_UnitLeavesNoSession ==
  shell.pc = "ended"
  => /\ ~shell.connected
        => /\ shell.sent = <<"connect">>
           /\ shell.opened = NoClient
     /\ shell.connected
        => /\ shell.sent = <<"connect", "execute", "disconnect">>
     /\ shell.opened # NoClient
        => /\ ~clients[shell.opened].open
           /\ GetConnection(active_connections, UnitKey) # shell.opened


\* C31 (as claimed): the request the gateway sends to the backend has the
\* method, the path, the JSON body and the query string of the inbound one.
C31_RequestPassedOn ==
  relay.outbound # NoRequest
  => /\ relay.outbound.method = relay.inbound.method
     /\ relay.outbound.path = relay.inbound.path
     /\ relay.outbound.json = relay.inbound.json
     /\ relay.outbound.args = relay.inbound.args


\* C32 (as claimed): a POST /tasks for a task id that is in the table leaves
\* the task with exactly one job and with the run_count it had.
C32_ReRegistrationKeepsOneJob ==
  [][\A t \in Registered :
       (Len(jobs') > Len(jobs) /\ jobs'[Len(jobs')].task_id = t)
       => /\ Cardinality(JobsOf(t)') = 1
          /\ tasks'[t].run_count = tasks[t].run_count]_vars

\* C33 (as claimed): every task in the table has a job that run_pending will
\* find due; a task without one stays 'scheduled' with run_count 0 for ever,
\* since only a job of its task id starts _execute_task for it.
C33_AcceptedTaskHasJob ==
  \A t \in Registered :
    (tasks[t].status = "scheduled" /\ tasks[t].run_count = 0) => JobsOf(t) # {}

\* C34: _call_service sends no request for a service_type it does not know
\* and raises.  A firing of a task with such a service_type increments
\* run_count by one when it marks the task 'running', adds nothing to the
\* result log at any of its steps, never gets to the 'completed' update, and
\* ends by setting 'failed' when the task is in the table at that moment.
C34_UnknownServiceFails ==
  [][/\ \A r1, r2, r3 \in Responses :
          call_service([NoConfig EXCEPT !.service_type = "ftp"], r1, r2, r3)
            = Outcome(TRUE, "none", 0, TRUE)
     /\ \A u \in units :
          u.config.service_type \notin {"ssh", "api", "snmp"}
          => /\ u.pc \in {"mark", "svc", "except"}
             /\ u \notin units' => task_results' = task_results
             /\ (u.pc = "mark" /\ u \notin units' /\ u.task_id \in Registered)
                => tasks'[u.task_id].run_count = tasks[u.task_id].run_count + 1
             /\ (u.pc = "svc" /\ u \notin units')
                => /\ \A v \in units' \ units : v.pc = "except"
                   /\ tasks' = tasks
             /\ (u.pc = "except" /\ u \notin units' /\ u.task_id \in Registered)
                => /\ tasks'[u.task_id].status = "failed"
                   /\ tasks'[u.task_id].run_count = tasks[u.task_id].run_count
                   /\ units' = units \ {u}]_vars

\* C34 witness: a task with the service_type "ftp" has fired once and is
\* 'failed', and the result log, which is not empty, has nothing of it.
C34_UnknownServiceFired ==
  \E t \in Registered :
    /\ tasks[t].config.service_type = "ftp"
    /\ tasks[t].status = "failed"
    /\ tasks[t].run_count = 1
    /\ ResultsOf(t) = << >>
    /\ task_results # << >>

\* C35 (as claimed): a command runs only on a client that is open: when
\* exec_command is called on the client an execute_command has looked up, no
\* disconnect has closed that client.
C35_NoCommandOnClosedHandle ==
  [][\A c \in calls :
       (c.op = "execute" /\ c.pc = "exec" /\ After(c) # {c})
       => clients[c.client].open]_cvars

\* C37 (as claimed): a disconnect returns True exactly when it took an entry
\* out of the registry, and is then answered 200, also when the close of the
\* client raised.
C37_TrueIffEntryRemoved ==
  \A c \in calls :
    (c.op = "disconnect" /\ c.pc = "done")
    => /\ c.result = "true" <=> c.client # NoClient
       /\ c.client # NoClient => HttpStatus(c) = 200

\* C36 (as claimed): when the execute of a shell invocation whose connect
\* succeeded is served, the registry holds, under its connection_id, the
\* client this invocation opened, and that client is open.
C36_ExecuteOnOwnSession ==
  [][(shell.pc = "execute" /\ shell'.pc = "disconnect")
     => /\ GetConnection(active_connections, UnitKey) = shell.opened
        /\ clients[shell.opened].open]_<<cvars, xvars>>

\* C38 (as claimed): what the caller of GET /tasks has read of a task when
\* the answer is sent is what the entry held at the instant get_tasks made
\* its copy.
C38_SnapshotIsolated ==
  reader.pc = "returned"
  => \A t \in reader.keys : \A f \in EntryFields :
       reader.seen[t][f] = FieldOf(reader.taken[t], f)

\* C39 (as claimed): a step that deletes a task leaves the entries and the
\* jobs of the other task ids as they are, and after a deletion the tick loop
\* goes on running for the tasks that are in the table.
C39_RemoveLeavesOthers ==
  [][/\ \A a \in Registered \ DOMAIN tasks' :
          /\ \A t \in Registered \ {a} : t \in DOMAIN tasks' /\ tasks'[t] = tasks[t]
          /\ SelectSeq(jobs', LAMBDA j : j.task_id # a)
               = SelectSeq(jobs, LAMBDA j : j.task_id # a)
     /\ (removed' # {} /\ DOMAIN tasks' # {}) => loop_pc' # "dead"]_vars

\* C40: a DELETE for a task id that is not in the table is answered 404 and
\* leaves the task table, the jobs and the result log as they are; a DELETE
\* is answered 200 only for an id that was in the table and is out of it
\* afterwards, and a task leaves the table only with such an answer.
C40_DeleteUnknownIs404 ==
  [][/\ (reply' # reply /\ reply'.status = 404)
        => /\ reply'.task_id \notin Registered
           /\ tasks' = tasks /\ jobs' = jobs /\ task_results' = task_results
     /\ (reply' # reply /\ reply'.status # 404)
        => /\ reply'.status = 200
           /\ reply'.task_id \in Registered
           /\ reply'.task_id \notin DOMAIN tasks'
     /\ \A t \in Registered \ DOMAIN tasks' : reply' = [task_id |-> t, status |-> 200]
    ]_<<vars, xvars>>

\* C40 witness: the second DELETE of a task id has been answered 404; the id
\* had been registered and deleted, its job is still there and the result log
\* holds a result.
C40_SecondDeleteIs404 ==
  \E t \in removed :
    /\ reply = [task_id |-> t, status |-> 404]
    /\ JobsOf(t) # {}
    /\ task_results # << >>

====
